---------------------------- MODULE Spec2Model ----------------------------
(***************************************************************************)
(* SupplyGuard: the assessment store (server/storage.ts), the HTTP         *)
(* handlers and the orchestration processAssessmentAsync                   *)
(* (server/routes.ts, second revision in the file), the provider adapter   *)
(* (server/services/gemini.ts) and the input schema (shared/schema.ts).    *)
(*                                                                         *)
(* The server is one Node.js process.  A handler runs from a macrotask     *)
(* (an HTTP request, a timer, a network completion) up to its first        *)
(* await; the continuation after an await is a microtask, and the          *)
(* microtask queue is drained before the next macrotask starts.  The       *)
(* variable micro is that queue.                                           *)
(***************************************************************************)
EXTENDS Integers, Sequences, FiniteSets, TLC

(***************************************************************************)
(* Bounds of the model.                                                    *)
(***************************************************************************)
MaxRecords == 2
MaxClock == 1
MaxPatches == 1
MaxSuppliers == 2

(***************************************************************************)
(* State.                                                                  *)
(*   assessments  MemStorage.assessments: key -> record                    *)
(*   order        the keys in the Map's iteration (insertion) order        *)
(*   clock        the value new Date() returns                             *)
(*   orch         per submission, the closure of the POST handler and of   *)
(*                processAssessmentAsync: where it stands (pc), the        *)
(*                validated assessmentData, the record create returned,    *)
(*                the deadline timer, the provider call and the            *)
(*                settlement of Promise.race                               *)
(*   micro        the microtask queue: ids whose continuation is ready     *)
(*   event        the step just taken and the response it produced         *)
(*   hist         per record, history: whether a PATCH has modified it,    *)
(*                who wrote status last                                    *)
(*   nPatch       the number of PATCH requests applied so far              *)
(*   client       the dashboard in one browser: the id it shows, its       *)
(*                isProcessing flag, the status of the record its query    *)
(*                holds, whether a fetch is under way and whether the      *)
(*                refetch interval is set                                  *)
(***************************************************************************)
VARIABLES assessments, order, clock, orch, micro, event, hist, nPatch,
          client

vars == <<assessments, order, clock, orch, micro, event, hist, nPatch, client>>

\* MainDashboard before any submission: useState(null), useState(false), a
\* disabled query without data.
clientInitial ==
  [currentAssessmentId |-> 0, isProcessing |-> FALSE, data |-> "none",
   fetching |-> FALSE, interval |-> FALSE]

(***************************************************************************)
(* JavaScript values of the nullable result columns.                       *)
(***************************************************************************)
Null == <<"null">>
Undefined == <<"undefined">>
Num(n) == <<"num", n>>
Arr(s) == <<"arr", s>>
IsNullish(v) == v[1] \in {"null", "undefined"}

(***************************************************************************)
(* Text is a sequence of one-character strings.                            *)
(***************************************************************************)
Upper == <<"A","B","C","D","E","F","G","H","I","J","K","L","M",
           "N","O","P","Q","R","S","T","U","V","W","X","Y","Z">>
Lower == <<"a","b","c","d","e","f","g","h","i","j","k","l","m",
           "n","o","p","q","r","s","t","u","v","w","x","y","z">>

toLowerCaseMap ==
  [c \in {Upper[i] : i \in 1..26} |-> Lower[CHOOSE i \in 1..26 : Upper[i] = c]]

toLowerCaseChar(c) ==
  IF c \in DOMAIN toLowerCaseMap THEN toLowerCaseMap[c] ELSE c

\* A comparison that forgets to fold the case.
toLowerCaseOmitted(s) == s

toLowerCase(s) == [i \in 1..Len(s) |-> toLowerCaseChar(s[i])]

\* String.prototype.includes; the receiver is evaluated once.
includes(s, sub) ==
  \E text \in {s} :
    \E i \in 0..(Len(text) - Len(sub)) :
      SubSeq(text, i + 1, i + Len(sub)) = sub

txtPort == <<"p","o","r","t">>
txtCongestion == <<"c","o","n","g","e","s","t","i","o","n">>
txtChina == <<"c","h","i","n","a">>

(***************************************************************************)
(* Math.round of s / 3 for a non-negative integer s (round half up).       *)
(***************************************************************************)
RoundThird(s) == (2 * s + 3) \div 6

FactFields == {"companyName", "industry", "suppliers", "logisticsRoutes",
               "transportationMethods", "riskFactors"}
ScoreFields == {"overallRiskScore", "supplierRiskScore",
                "logisticsRiskScore", "geopoliticalRiskScore"}
ListFields == {"vulnerabilities", "recommendations"}
ResultFields == ScoreFields \cup ListFields
TransportKeys == {"ocean", "air", "truck", "rail"}


(***************************************************************************)
(* shared/schema.ts: supplierSchema, transportationMethodsSchema,          *)
(* assessmentInputSchema.  A request body is a record that may lack        *)
(* fields.                                                                 *)
(***************************************************************************)
supplierSchema(s) ==
  /\ {"name", "location", "criticality", "products"} \subseteq DOMAIN s
  /\ Len(s.name) >= 1
  /\ Len(s.location) >= 1
  /\ s.criticality \in {"High", "Medium", "Low"}
  /\ Len(s.products) >= 1

transportationMethodsSchema(t) ==
  [k \in TransportKeys |-> IF k \in DOMAIN t THEN t[k] ELSE FALSE]

\* A schema whose suppliers array has no minimum length.
safeParseSuccessAnySuppliers(body) ==
  /\ FactFields \subseteq DOMAIN body
  /\ Len(body.companyName) >= 1
  /\ Len(body.industry) >= 1
  /\ \A i \in 1..Len(body.suppliers) : supplierSchema(body.suppliers[i])
  /\ Len(body.logisticsRoutes) >= 1
  /\ Len(body.riskFactors) >= 1

safeParseSuccess(body) ==
  /\ FactFields \subseteq DOMAIN body
  /\ Len(body.companyName) >= 1
  /\ Len(body.industry) >= 1
  /\ Len(body.suppliers) >= 1
  /\ \A i \in 1..Len(body.suppliers) : supplierSchema(body.suppliers[i])
  /\ Len(body.logisticsRoutes) >= 1
  /\ Len(body.riskFactors) >= 1

safeParseData(body) ==
  [companyName |-> body.companyName,
   industry |-> body.industry,
   suppliers |-> body.suppliers,
   logisticsRoutes |-> body.logisticsRoutes,
   transportationMethods |-> transportationMethodsSchema(body.transportationMethods),
   riskFactors |-> body.riskFactors]

(***************************************************************************)
(* Request bodies the clients send to POST /api/assessments.               *)
(***************************************************************************)
Supplier(loc) ==
  [name |-> <<"s">>, location |-> loc, criticality |-> "High", products |-> <<"x">>]

locChina == <<"C","h","i","n","a">>
locOther == <<"U","S">>

BodySingleChinaPort ==
  [companyName |-> <<"A">>, industry |-> <<"i">>,
   suppliers |-> <<Supplier(locChina)>>,
   logisticsRoutes |-> <<"r">>,
   transportationMethods |-> [ocean |-> TRUE],
   riskFactors |-> <<"P","o","r","t">>]

BodyTwoPlain ==
  [companyName |-> <<"B">>, industry |-> <<"i">>,
   suppliers |-> <<Supplier(locOther), Supplier(locOther)>>,
   logisticsRoutes |-> <<"r">>,
   transportationMethods |-> [air |-> TRUE, rail |-> FALSE],
   riskFactors |-> <<"f","x">>]

Without(body, f) == [g \in (DOMAIN body) \ {f} |-> body[g]]

ValidBodies == {BodySingleChinaPort}

InvalidBodies ==
  {Without(BodyTwoPlain, "suppliers"),
   [BodyTwoPlain EXCEPT !.suppliers = << >>],
   [BodyTwoPlain EXCEPT !.companyName = << >>],
   Without(BodyTwoPlain, "riskFactors")}

PostBodies == ValidBodies \cup InvalidBodies

(***************************************************************************)
(* server/storage.ts: MemStorage.  The Map is the function assessments     *)
(* together with the sequence order of its keys in insertion order.        *)
(***************************************************************************)
Put(map, k, v) == [x \in (DOMAIN map) \cup {k} |-> IF x = k THEN v ELSE map[x]]

Found(r) == <<"found", r>>
IsFound(v) == v[1] = "found"

\* Map.set keeps the place of a key the Map holds, and appends a new one.
keysAfterSet(keys, k) ==
  IF \E i \in 1..Len(keys) : keys[i] = k THEN keys ELSE Append(keys, k)

getAssessment(map, id) == IF id \in DOMAIN map THEN Found(map[id]) ELSE Undefined

\* A record whose scores start at 0 instead of null.
newAssessmentZeroScores(assessmentData, id, now) ==
  [id |-> id,
   companyName |-> assessmentData.companyName,
   industry |-> assessmentData.industry,
   suppliers |-> assessmentData.suppliers,
   logisticsRoutes |-> assessmentData.logisticsRoutes,
   transportationMethods |-> assessmentData.transportationMethods,
   riskFactors |-> assessmentData.riskFactors,
   overallRiskScore |-> Num(0),
   supplierRiskScore |-> Num(0),
   logisticsRiskScore |-> Num(0),
   geopoliticalRiskScore |-> Num(0),
   vulnerabilities |-> Null,
   recommendations |-> Null,
   status |-> "pending",
   createdAt |-> now,
   updatedAt |-> now]

newAssessment(assessmentData, id, now) ==
  [id |-> id,
   companyName |-> assessmentData.companyName,
   industry |-> assessmentData.industry,
   suppliers |-> assessmentData.suppliers,
   logisticsRoutes |-> assessmentData.logisticsRoutes,
   transportationMethods |-> assessmentData.transportationMethods,
   riskFactors |-> assessmentData.riskFactors,
   overallRiskScore |-> Null,
   supplierRiskScore |-> Null,
   logisticsRiskScore |-> Null,
   geopoliticalRiskScore |-> Null,
   vulnerabilities |-> Null,
   recommendations |-> Null,
   status |-> "pending",
   createdAt |-> now,
   updatedAt |-> now]

\* A create that builds the record and forgets this.assessments.set.
createAssessmentNoSet(map, assessmentData, id, now) == map

createAssessment(map, assessmentData, id, now) ==
  Put(map, id, newAssessment(assessmentData, id, now))

\* A merge that keeps none of the fields the update does not set:
\* { ...updates, updatedAt: new Date() }.
mergeUpdatesReplace(existing, updates, now) ==
  [f \in (DOMAIN updates) \cup {"updatedAt"} |->
     IF f = "updatedAt" THEN now ELSE updates[f]]

\* A merge that spreads the update last:
\* { ...existing, updatedAt: new Date(), ...updates }.
mergeUpdatesSpreadLast(existing, updates, now) ==
  [f \in (DOMAIN existing) \cup (DOMAIN updates) \cup {"updatedAt"} |->
     IF f \in DOMAIN updates THEN updates[f]
     ELSE IF f = "updatedAt" THEN now
     ELSE existing[f]]

\* { ...existing, ...updates, updatedAt: new Date() }
mergeUpdates(existing, updates, now) ==
  [f \in (DOMAIN existing) \cup (DOMAIN updates) \cup {"updatedAt"} |->
     IF f = "updatedAt" THEN now
     ELSE IF f \in DOMAIN updates THEN updates[f]
     ELSE existing[f]]

\* An update that sets the key whether or not the Map holds it.
updateAssessmentUpsert(map, id, updates, now) ==
  Put(map, id, mergeUpdates(IF id \in DOMAIN map THEN map[id] ELSE [id |-> id],
                            updates, now))

\* An update that merges into the record of every key.
updateAssessmentEveryKey(map, id, updates, now) ==
  IF id \notin DOMAIN map THEN map
  ELSE [k \in DOMAIN map |-> mergeUpdates(map[k], updates, now)]

\* The Map after updateAssessment(id, updates).
updateAssessment(map, id, updates, now) ==
  IF id \notin DOMAIN map THEN map
  ELSE [map EXCEPT ![id] = mergeUpdates(@, updates, now)]

\* What updateAssessment(id, updates) returns.
updateAssessmentReturn(map, id, updates, now) ==
  IF id \notin DOMAIN map THEN Undefined
  ELSE Found(mergeUpdates(map[id], updates, now))

\* Array.prototype.sort is stable; the comparator is
\* new Date(b.createdAt).getTime() - new Date(a.createdAt).getTime().
\* The comparator with its operands swapped: oldest first.
compareCreatedAtAscending(a, b) == a.createdAt - b.createdAt

compareCreatedAt(a, b) == b.createdAt - a.createdAt

RECURSIVE InsertSorted(_, _)
InsertSorted(sorted, r) ==
  IF sorted = << >> THEN <<r>>
  ELSE IF compareCreatedAt(Head(sorted), r) > 0
       THEN <<r>> \o sorted
       ELSE <<Head(sorted)>> \o InsertSorted(Tail(sorted), r)

RECURSIVE SortValues(_)
SortValues(values) ==
  IF values = << >> THEN << >>
  ELSE InsertSorted(SortValues(SubSeq(values, 1, Len(values) - 1)),
                    values[Len(values)])

getAllAssessments(map, keys) ==
  SortValues([i \in 1..Len(keys) |-> map[keys[i]]])

(***************************************************************************)
(* server/routes.ts: createEmergencyFallback.                              *)
(***************************************************************************)
fallbackSupplierRisk(data) == IF Len(data.suppliers) = 1 THEN 8 ELSE 5

fallbackHasPortRisk(data) ==
  \/ includes(toLowerCase(data.riskFactors), txtPort)
  \/ includes(toLowerCase(data.riskFactors), txtCongestion)

fallbackLogisticsRisk(data) == IF fallbackHasPortRisk(data) THEN 7 ELSE 4

fallbackHasChinaRisk(data) ==
  \E i \in 1..Len(data.suppliers) :
    includes(toLowerCase(data.suppliers[i].location), txtChina)

fallbackGeopoliticalRisk(data) == IF fallbackHasChinaRisk(data) THEN 7 ELSE 4

fallbackOverallRisk(supplierRisk, logisticsRisk, geopoliticalRisk) ==
  RoundThird(supplierRisk + logisticsRisk + geopoliticalRisk)

\* A fallback that stamps the ids of its findings with the time of the call.
createEmergencyFallbackStamped(data) ==
  [scores |->
     [overallRiskScore |->
        Num(fallbackOverallRisk(fallbackSupplierRisk(data),
                                fallbackLogisticsRisk(data),
                                fallbackGeopoliticalRisk(data))),
      supplierRiskScore |-> Num(fallbackSupplierRisk(data)),
      logisticsRiskScore |-> Num(fallbackLogisticsRisk(data)),
      geopoliticalRiskScore |-> Num(fallbackGeopoliticalRisk(data))],
   vulnerabilities |-> Arr(<<[id |-> clock, title |-> "Supply Chain Concentration Risk"]>>),
   recommendations |-> Arr(<<[id |-> clock, title |-> "Diversify Supplier Network"]>>)]

\* A fallback whose second vulnerability carries the geopolitical score.
createEmergencyFallbackMisscored(data) ==
  LET supplierRisk == fallbackSupplierRisk(data)
      logisticsRisk == fallbackLogisticsRisk(data)
      geopoliticalRisk == fallbackGeopoliticalRisk(data)
      overallRisk == fallbackOverallRisk(supplierRisk, logisticsRisk,
                                         geopoliticalRisk)
  IN
  [scores |->
     [overallRiskScore |-> Num(overallRisk),
      supplierRiskScore |-> Num(supplierRisk),
      logisticsRiskScore |-> Num(logisticsRisk),
      geopoliticalRiskScore |-> Num(geopoliticalRisk)],
   vulnerabilities |->
     Arr(<<[id |-> "vuln_001", title |-> "Supply Chain Concentration Risk",
            severity |-> "HIGH", score |-> supplierRisk,
            impactTimeline |-> "Immediate to weeks",
            potentialCost |-> "$100K-$1M USD"],
           [id |-> "vuln_002", title |-> "Logistics Bottleneck Risk",
            severity |-> "MEDIUM", score |-> geopoliticalRisk,
            impactTimeline |-> "Days to weeks",
            potentialCost |-> "$50K-$500K USD"]>>),
   recommendations |->
     Arr(<<[id |-> "rec_001", title |-> "Diversify Supplier Network",
            timeline |-> "3-6 months", priority |-> "Critical"],
           [id |-> "rec_002", title |-> "Optimize Logistics Routes",
            timeline |-> "1-3 months", priority |-> "High"]>>)]

createEmergencyFallback(data) ==
  LET supplierRisk == fallbackSupplierRisk(data)
      logisticsRisk == fallbackLogisticsRisk(data)
      geopoliticalRisk == fallbackGeopoliticalRisk(data)
      overallRisk == fallbackOverallRisk(supplierRisk, logisticsRisk,
                                         geopoliticalRisk)
  IN
  [scores |->
     [overallRiskScore |-> Num(overallRisk),
      supplierRiskScore |-> Num(supplierRisk),
      logisticsRiskScore |-> Num(logisticsRisk),
      geopoliticalRiskScore |-> Num(geopoliticalRisk)],
   vulnerabilities |->
     Arr(<<[id |-> "vuln_001", title |-> "Supply Chain Concentration Risk",
            severity |-> "HIGH", score |-> supplierRisk,
            impactTimeline |-> "Immediate to weeks",
            potentialCost |-> "$100K-$1M USD"],
           [id |-> "vuln_002", title |-> "Logistics Bottleneck Risk",
            severity |-> "MEDIUM", score |-> logisticsRisk,
            impactTimeline |-> "Days to weeks",
            potentialCost |-> "$50K-$500K USD"]>>),
   recommendations |->
     Arr(<<[id |-> "rec_001", title |-> "Diversify Supplier Network",
            timeline |-> "3-6 months", priority |-> "Critical"],
           [id |-> "rec_002", title |-> "Optimize Logistics Routes",
            timeline |-> "1-3 months", priority |-> "High"]>>)]

(***************************************************************************)
(* server/services/gemini.ts: analyzeSupplyChainVulnerabilities.           *)
(* The model API either rejects or resolves with a response whose text is  *)
(* undefined, empty or some text; JSON.parse turns the text into a value   *)
(* or throws.  An object value is <<"obj", properties>>.                   *)
(***************************************************************************)
Obj(props) == <<"obj", props>>

ProviderVuln ==
  [id |-> "vuln_001", title |-> "Port exposure", severity |-> "LOW",
   score |-> 3, impactTimeline |-> "weeks", potentialCost |-> "$10K USD"]

ProviderRec ==
  [id |-> "rec_001", title |-> "Add a port", timeline |-> "1 month",
   priority |-> "Low"]

ProviderScores(overall) ==
  Obj([overallRiskScore |-> Num(overall), supplierRiskScore |-> Num(6),
       logisticsRiskScore |-> Num(3), geopoliticalRiskScore |-> Num(2)])

\* JSON.parse on the response texts of the model; any other text is a
\* SyntaxError.
JSONTexts == {"good", "scoreOutOfRange", "null", "missingScore"}

JSONparse(text) ==
  CASE text = "good" ->
         Obj([scores |-> ProviderScores(4),
              vulnerabilities |-> Arr(<<ProviderVuln>>),
              recommendations |-> Arr(<<ProviderRec>>)])
    [] text = "scoreOutOfRange" ->
         Obj([scores |-> ProviderScores(11),
              vulnerabilities |-> Arr(<<ProviderVuln>>),
              recommendations |-> Arr(<<ProviderRec>>)])
    [] text = "null" -> Null
    [] text = "missingScore" ->
         Obj([scores |-> Obj([overallRiskScore |-> Num(4)]),
              recommendations |-> Arr(<<ProviderRec>>)])

\* What ai.models.generateContent can do.
ApiResponses ==
  {[kind |-> "reject", text |-> ""],
   [kind |-> "text", text |-> ""],
   [kind |-> "text", text |-> "not json"]}
  \cup {[kind |-> "text", text |-> t] : t \in JSONTexts}

\* A settlement of a promise.
Resolved(v) == [settled |-> "resolved", value |-> v]
Rejected == [settled |-> "rejected", value |-> Undefined]

analyzeSupplyChainVulnerabilities(response) ==
  IF response.kind = "reject" THEN Rejected
  ELSE IF response.text = "" THEN Rejected
  ELSE IF response.text \notin JSONTexts THEN Rejected
  ELSE Resolved(JSONparse(response.text))

\* Property access of JavaScript: obj.p
Get(v, p) == IF v[1] = "obj" /\ p \in DOMAIN v[2] THEN v[2][p] ELSE Undefined

(***************************************************************************)
(* server/routes.ts: processAssessmentAsync, from the settlement of        *)
(* Promise.race to the store update: the fields of the update.             *)
(***************************************************************************)
completedUpdate(result) ==
  [status |-> "completed",
   overallRiskScore |-> Get(Get(result, "scores"), "overallRiskScore"),
   supplierRiskScore |-> Get(Get(result, "scores"), "supplierRiskScore"),
   logisticsRiskScore |-> Get(Get(result, "scores"), "logisticsRiskScore"),
   geopoliticalRiskScore |-> Get(Get(result, "scores"), "geopoliticalRiskScore"),
   vulnerabilities |-> Get(result, "vulnerabilities"),
   recommendations |-> Get(result, "recommendations")]

\* Reading result.scores.x throws a TypeError when result or result.scores
\* is null or undefined.
readThrows(result) == IsNullish(result) \/ IsNullish(Get(result, "scores"))

\* A catch block that records the failure and no result.
fallbackUpdateFailed(data) == [status |-> "failed"]

fallbackUpdate(data) ==
  LET fallbackResult == createEmergencyFallback(data)
  IN [status |-> "completed",
      overallRiskScore |-> fallbackResult.scores.overallRiskScore,
      supplierRiskScore |-> fallbackResult.scores.supplierRiskScore,
      logisticsRiskScore |-> fallbackResult.scores.logisticsRiskScore,
      geopoliticalRiskScore |-> fallbackResult.scores.geopoliticalRiskScore,
      vulnerabilities |-> fallbackResult.vulnerabilities,
      recommendations |-> fallbackResult.recommendations]

\* The try block applies the provider's value; a rejection of the race, or
\* a TypeError thrown while reading the value, lands in the catch block.
usesFallback(outcome) ==
  outcome.settled = "rejected" \/ readThrows(outcome.value)

\* The catch block that puts the record back to pending for a retry.
resultUpdateRetry(outcome, data) ==
  IF usesFallback(outcome) THEN [status |-> "pending"]
  ELSE completedUpdate(outcome.value)

\* The catch block that records the failure instead of falling back.
resultUpdateFailed(outcome, data) ==
  IF usesFallback(outcome) THEN [status |-> "failed"]
  ELSE completedUpdate(outcome.value)

resultUpdate(outcome, data) ==
  IF usesFallback(outcome) THEN fallbackUpdate(data)
  ELSE completedUpdate(outcome.value)

(***************************************************************************)
(* Bodies the clients send to PATCH /api/assessments/:id.  The handler     *)
(* passes req.body to the store unvalidated; the first is the body of the  *)
(* client's retry button (client/src/components/assessment-results.tsx).   *)
(***************************************************************************)
PatchBodies ==
  {[status |-> "pending"],
   [status |-> "failed"],
   [status |-> "completed"],
   [overallRiskScore |-> Num(9)]}

Ids == 1..MaxRecords

\* The promise Promise.race([analysisPromise, maxProcessingTime]) returns:
\* its settlement, and which of the two settled it.
Unsettled == [settled |-> "pending", value |-> Undefined, by |-> "none"]

\* A race that a rejection settles again after a resolution.
PromiseRaceRejectionWins(race, settlement, who) ==
  IF race.settled = "pending" \/ settlement.settled = "rejected"
  THEN [settled |-> settlement.settled, value |-> settlement.value, by |-> who]
  ELSE race

\* A race that the last settlement wins.
PromiseRaceLastWins(race, settlement, who) ==
  [settled |-> settlement.settled, value |-> settlement.value, by |-> who]

\* The first of the two to settle settles the race; a later one does not.
PromiseRace(race, settlement, who) ==
  IF race.settled = "pending"
  THEN [settled |-> settlement.settled, value |-> settlement.value, by |-> who]
  ELSE race

Init ==
  /\ assessments = << >>
  /\ order = << >>
  /\ clock = 0
  /\ orch = << >>
  /\ micro = << >>
  /\ event = [op |-> "init"]
  /\ hist = << >>
  /\ nPatch = 0
  /\ client = clientInitial

\* new Date(): the clock is read, at the value of the last reading or later.
\* Readings are compared with each other only, so a step of one stands for
\* any positive amount of time.
Now == {t \in {clock, clock + 1} : t <= MaxClock}

\* POST /api/assessments, validation fails: 400.
PostRejected(body) ==
  /\ micro = << >>
  /\ ~safeParseSuccess(body)
  /\ event' = [op |-> "POST", input |-> body, code |-> 400]
  /\ UNCHANGED <<assessments, order, clock, orch, micro, hist, nPatch, client>>

\* A POST handler that starts the provider call and the timer at creation,
\* before the response.
PostAcceptedCallsProvider(body) ==
  /\ micro = << >>
  /\ safeParseSuccess(body)
  /\ Len(order) < MaxRecords
  /\ \E now \in Now :
     LET id == Len(order) + 1
         assessmentData == safeParseData(body)
     IN /\ clock' = now
        /\ assessments' = createAssessment(assessments, assessmentData, id, now)
        /\ order' = keysAfterSet(order, id)
        /\ orch' = Put(orch, id, [pc |-> "postAwait",
                                  assessmentData |-> assessmentData,
                                  assessment |-> assessments'[id],
                                  timer |-> "armed",
                                  provider |-> "called",
                                  race |-> Unsettled])
        /\ hist' = Put(hist, id, [patched |-> FALSE, statusBy |-> "create"])
        /\ micro' = Append(micro, id)
        /\ event' = [op |-> "create", id |-> id, input |-> body]
  /\ UNCHANGED <<nPatch, client>>

\* POST /api/assessments, validation succeeds: up to
\* `await storage.createAssessment(assessmentData)`.  randomUUID() is a key
\* the Map does not hold.
PostAccepted(body) ==
  /\ micro = << >>
  /\ safeParseSuccess(body)
  /\ Len(order) < MaxRecords
  /\ \E now \in Now :
     LET id == Len(order) + 1
         assessmentData == safeParseData(body)
     IN /\ clock' = now
        /\ assessments' = createAssessment(assessments, assessmentData, id, now)
        /\ order' = keysAfterSet(order, id)
        /\ orch' = Put(orch, id, [pc |-> "postAwait",
                                  assessmentData |-> assessmentData,
                                  assessment |-> assessments'[id],
                                  timer |-> "none",
                                  provider |-> "none",
                                  race |-> Unsettled])
        /\ hist' = Put(hist, id, [patched |-> FALSE, statusBy |-> "create"])
        /\ micro' = Append(micro, id)
        /\ event' = [op |-> "create", id |-> id, input |-> body]
  /\ UNCHANGED <<nPatch, client>>

\* The continuation of the POST handler: res.status(201).json(assessment),
\* then processAssessmentAsync up to
\* `await storage.updateAssessment(assessmentId, { status: "processing" })`.
PostRespond(id) ==
  /\ micro # << >> /\ Head(micro) = id
  /\ orch[id].pc = "postAwait"
  /\ event' = [op |-> "POST", id |-> id, code |-> 201,
               record |-> orch[id].assessment]
  /\ \E now \in Now :
       /\ clock' = now
       /\ assessments' = updateAssessment(assessments, id,
                                          [status |-> "processing"], now)
  /\ hist' = [hist EXCEPT ![id].statusBy = "orchestrator"]
  /\ orch' = [orch EXCEPT ![id].pc = "orchAwait"]
  /\ micro' = Append(Tail(micro), id)
  /\ UNCHANGED <<order, nPatch, client>>

\* processAssessmentAsync: the deadline timer is set, the provider is
\* called, and the function awaits Promise.race.
OrchStart(id) ==
  /\ micro # << >> /\ Head(micro) = id
  /\ orch[id].pc = "orchAwait"
  /\ orch' = [orch EXCEPT ![id].pc = "racing",
                          ![id].timer = "armed",
                          ![id].provider = "called"]
  /\ micro' = Tail(micro)
  /\ event' = [op |-> "race", id |-> id]
  /\ UNCHANGED <<assessments, order, clock, hist, nPatch, client>>

\* The provider call of submission id settles.  The continuation of
\* `await Promise.race(...)` is queued when this settles the race.
ProviderSettles(id, response) ==
  /\ micro = << >>
  /\ id \in DOMAIN orch
  /\ orch[id].provider = "called"
  /\ LET race == PromiseRace(orch[id].race,
                              analyzeSupplyChainVulnerabilities(response),
                              "provider")
     IN IF race # orch[id].race
        THEN /\ orch' = [orch EXCEPT ![id].provider = "settled",
                                     ![id].pc = "raceSettled",
                                     ![id].race = race]
             /\ micro' = Append(micro, id)
        ELSE /\ orch' = [orch EXCEPT ![id].provider = "settled"]
             /\ UNCHANGED micro
  /\ event' = [op |-> "provider", id |-> id, response |-> response]
  /\ UNCHANGED <<assessments, order, clock, hist, nPatch, client>>

\* The 11-second timer of submission id fires and rejects maxProcessingTime.
DeadlineFires(id) ==
  /\ micro = << >>
  /\ id \in DOMAIN orch
  /\ orch[id].timer = "armed"
  /\ LET race == PromiseRace(orch[id].race, Rejected, "deadline")
     IN IF race # orch[id].race
        THEN /\ orch' = [orch EXCEPT ![id].timer = "fired",
                                     ![id].pc = "raceSettled",
                                     ![id].race = race]
             /\ micro' = Append(micro, id)
        ELSE /\ orch' = [orch EXCEPT ![id].timer = "fired"]
             /\ UNCHANGED micro
  /\ event' = [op |-> "deadline", id |-> id]
  /\ UNCHANGED <<assessments, order, clock, hist, nPatch, client>>

\* A catch block that calls the provider again instead of writing the
\* fallback.
OrchFinishRetry(id) ==
  /\ micro # << >> /\ Head(micro) = id
  /\ orch[id].pc = "raceSettled"
  /\ IF usesFallback(orch[id].race)
     THEN /\ orch' = [orch EXCEPT ![id].pc = "racing",
                                  ![id].provider = "called",
                                  ![id].race = Unsettled]
          /\ event' = [op |-> "race", id |-> id]
          /\ UNCHANGED <<assessments, clock, hist>>
     ELSE /\ \E now \in Now :
               /\ clock' = now
               /\ assessments' =
                    updateAssessment(assessments, id,
                                     completedUpdate(orch[id].race.value), now)
          /\ hist' = [hist EXCEPT ![id].statusBy = "orchestrator"]
          /\ orch' = [orch EXCEPT ![id].pc = "done"]
          /\ event' = [op |-> "result", id |-> id]
  /\ micro' = Tail(micro)
  /\ UNCHANGED <<order, nPatch, client>>

\* processAssessmentAsync after the race: the try block's update, or the
\* catch block's createEmergencyFallback and update.
OrchFinish(id) ==
  /\ micro # << >> /\ Head(micro) = id
  /\ orch[id].pc = "raceSettled"
  /\ \E update \in {resultUpdate(orch[id].race, orch[id].assessmentData)},
        now \in Now :
       /\ clock' = now
       /\ assessments' = updateAssessment(assessments, id, update, now)
       /\ hist' = [hist EXCEPT ![id].statusBy =
                      IF "status" \in DOMAIN update THEN "orchestrator" ELSE @]
  /\ orch' = [orch EXCEPT ![id].pc = "done"]
  /\ micro' = Tail(micro)
  /\ event' = [op |-> "result", id |-> id]
  /\ UNCHANGED <<order, nPatch, client>>

\* A GET handler that runs between a handler's await and its continuation.
GetAssessmentBetweenMicrotasks(id) ==
  /\ event' = IF IsFound(getAssessment(assessments, id))
              THEN [op |-> "GET", id |-> id, code |-> 200,
                    record |-> getAssessment(assessments, id)[2]]
              ELSE [op |-> "GET", id |-> id, code |-> 404]
  /\ UNCHANGED <<assessments, order, clock, orch, micro, hist, nPatch, client>>

\* GET /api/assessments/:id
GetAssessment(id) ==
  /\ micro = << >>
  /\ event' = IF IsFound(getAssessment(assessments, id))
              THEN [op |-> "GET", id |-> id, code |-> 200,
                    record |-> getAssessment(assessments, id)[2]]
              ELSE [op |-> "GET", id |-> id, code |-> 404]
  /\ UNCHANGED <<assessments, order, clock, orch, micro, hist, nPatch, client>>

\* GET /api/assessments
ListAssessments ==
  /\ micro = << >>
  /\ event' = [op |-> "LIST", code |-> 200,
               list |-> getAllAssessments(assessments, order)]
  /\ UNCHANGED <<assessments, order, clock, orch, micro, hist, nPatch, client>>

\* A PATCH handler that runs processAssessmentAsync again when the body
\* sets status pending.
PatchAssessmentRestarts(id, updates) ==
  /\ micro = << >>
  /\ id \in DOMAIN assessments => nPatch < MaxPatches
  /\ \E now \in Now :
       /\ clock' = IF id \in DOMAIN assessments THEN now ELSE clock
       /\ assessments' = updateAssessment(assessments, id, updates, now)
       /\ event' =
            IF IsFound(updateAssessmentReturn(assessments, id, updates, now))
            THEN [op |-> "PATCH", id |-> id, code |-> 200,
                  record |-> updateAssessmentReturn(assessments, id, updates, now)[2]]
            ELSE [op |-> "PATCH", id |-> id, code |-> 404]
  /\ hist' = IF id \in DOMAIN assessments
             THEN [hist EXCEPT ![id].patched = TRUE,
                               ![id].statusBy =
                                  IF "status" \in DOMAIN updates THEN "patch" ELSE @]
             ELSE hist
  /\ nPatch' = IF id \in DOMAIN assessments THEN nPatch + 1 ELSE nPatch
  /\ IF /\ id \in DOMAIN assessments
        /\ "status" \in DOMAIN updates
        /\ updates.status = "pending"
        /\ orch[id].pc = "done"
     THEN /\ orch' = [orch EXCEPT ![id].pc = "orchAwait",
                                  ![id].provider = "none",
                                  ![id].timer = "none",
                                  ![id].race = Unsettled]
          /\ micro' = Append(micro, id)
     ELSE UNCHANGED <<orch, micro>>
  /\ UNCHANGED <<order, client>>

\* PATCH /api/assessments/:id with body updates.
PatchAssessment(id, updates) ==
  /\ micro = << >>
  /\ id \in DOMAIN assessments => nPatch < MaxPatches
  /\ \E now \in Now :
       /\ clock' = IF id \in DOMAIN assessments THEN now ELSE clock
       /\ assessments' = updateAssessment(assessments, id, updates, now)
       /\ event' =
            IF IsFound(updateAssessmentReturn(assessments, id, updates, now))
            THEN [op |-> "PATCH", id |-> id, code |-> 200,
                  record |-> updateAssessmentReturn(assessments, id, updates, now)[2]]
            ELSE [op |-> "PATCH", id |-> id, code |-> 404]
  /\ hist' = IF id \in DOMAIN assessments
             THEN [hist EXCEPT ![id].patched = TRUE,
                               ![id].statusBy =
                                  IF "status" \in DOMAIN updates THEN "patch" ELSE @]
             ELSE hist
  /\ nPatch' = IF id \in DOMAIN assessments THEN nPatch + 1 ELSE nPatch
  /\ UNCHANGED <<order, orch, micro, client>>

Next ==
  \/ \E body \in PostBodies : PostRejected(body)
  \/ \E body \in PostBodies : PostAccepted(body)
  \/ \E id \in Ids : PostRespond(id)
  \/ \E id \in Ids : OrchStart(id)
  \/ \E id \in Ids, response \in ApiResponses : ProviderSettles(id, response)
  \/ \E id \in Ids : DeadlineFires(id)
  \/ \E id \in Ids : OrchFinish(id)
  \/ \E id \in Ids : GetAssessment(id)
  \/ ListAssessments
  \/ \E id \in Ids, updates \in PatchBodies : PatchAssessment(id, updates)

Spec == Init /\ [][Next]_vars

(***************************************************************************)
(* The scheduling of Node.js: a ready microtask runs, and a timer that is  *)
(* set fires.  Nothing makes the provider settle.  The fair specification  *)
(* is the pipeline with the requests that write to the store: accepted     *)
(* POSTs and PATCHes.                                                      *)
(***************************************************************************)
FairNext ==
  \/ \E body \in ValidBodies : PostAccepted(body)
  \/ \E id \in Ids : PostRespond(id)
  \/ \E id \in Ids : OrchStart(id)
  \/ \E id \in Ids, response \in ApiResponses : ProviderSettles(id, response)
  \/ \E id \in Ids : DeadlineFires(id)
  \/ \E id \in Ids : OrchFinish(id)
  \/ \E id \in Ids, updates \in PatchBodies : PatchAssessment(id, updates)

Fairness ==
  \A id \in Ids :
    /\ WF_vars(PostRespond(id))
    /\ WF_vars(OrchStart(id))
    /\ WF_vars(DeadlineFires(id))
    /\ WF_vars(OrchFinish(id))

FairSpec == Init /\ [][FairNext]_vars /\ Fairness

(***************************************************************************)
(* The server seen by clients that only POST: every way a body can fail    *)
(* the schema.                                                             *)
(***************************************************************************)
AllInvalidBodies ==
  {Without(BodyTwoPlain, f) :
     f \in {"companyName", "industry", "suppliers", "logisticsRoutes",
            "riskFactors", "transportationMethods"}}
  \cup {[BodyTwoPlain EXCEPT ![f] = << >>] :
          f \in {"companyName", "industry", "suppliers", "logisticsRoutes",
                 "riskFactors"}}
  \cup {[BodyTwoPlain EXCEPT !.suppliers =
           <<[name |-> << >>, location |-> locOther, criticality |-> "High",
              products |-> <<"x">>]>>]}

AllPostBodies == {BodySingleChinaPort, BodyTwoPlain} \cup AllInvalidBodies

PostNext ==
  \/ \E body \in AllPostBodies : PostRejected(body)
  \/ \E body \in AllPostBodies : PostAccepted(body)
  \/ \E id \in Ids : PostRespond(id)
  \/ \E id \in Ids : OrchStart(id)
  \/ \E id \in Ids, response \in ApiResponses : ProviderSettles(id, response)
  \/ \E id \in Ids : DeadlineFires(id)
  \/ \E id \in Ids : OrchFinish(id)

PostSpec == Init /\ [][PostNext]_vars

(***************************************************************************)
(* MemStorage on its own: its four methods called in any order.            *)
(***************************************************************************)
StorePartials ==
  {[status |-> "processing"],
   [createdAt |-> 0],
   [createdAt |-> MaxClock]}

StoreCreate(body) ==
  /\ Len(order) < MaxRecords
  /\ \E now \in Now :
     LET id == Len(order) + 1
     IN /\ clock' = now
        /\ assessments' = createAssessment(assessments, safeParseData(body), id, now)
        /\ order' = keysAfterSet(order, id)
        /\ event' = [op |-> "create", id |-> id, input |-> body,
                     record |-> newAssessment(safeParseData(body), id, now)]
  /\ UNCHANGED <<orch, micro, hist, nPatch, client>>

StoreUpdate(id, updates) ==
  /\ \E now \in Now :
       /\ clock' = IF id \in DOMAIN assessments THEN now ELSE clock
       /\ assessments' = updateAssessment(assessments, id, updates, now)
       /\ event' = [op |-> "update", id |-> id,
                    found |-> IsFound(updateAssessmentReturn(assessments, id,
                                                             updates, now))]
  /\ UNCHANGED <<order, orch, micro, hist, nPatch, client>>

StoreNext ==
  \/ \E body \in {BodySingleChinaPort, BodyTwoPlain} : StoreCreate(body)
  \/ \E id \in Ids, updates \in StorePartials : StoreUpdate(id, updates)
  \/ \E id \in Ids : GetAssessment(id)
  \/ ListAssessments

StoreSpec == Init /\ [][StoreNext]_vars

(***************************************************************************)
(* Vocabulary of the properties.                                           *)
(***************************************************************************)
ScoresNull(r) == \A f \in ScoreFields : r[f] = Null
ResultNull(r) == \A f \in ResultFields : r[f] = Null
ResultPresent(r) == \A f \in ResultFields : ~IsNullish(r[f])
ResultOf(r) == [f \in ResultFields |-> r[f]]
FallbackResultOf(data) ==
  LET update == fallbackUpdate(data) IN [f \in ResultFields |-> update[f]]
Stored == DOMAIN assessments

\* The step just taken is the result write of submission id.
ResultWrite(id) == event'.op = "result" /\ event'.id = id

(***************************************************************************)
(* C1.  Every accepted submission reaches the orchestrator's own write of  *)
(* status completed, whatever the provider does: a result, a rejection,    *)
(* an empty or unparseable response, or no settlement at all before the    *)
(* deadline timer fires.  The record does not stay in processing.          *)
(***************************************************************************)
C1_EventuallyCompleted ==
  \A id \in Ids :
    (id \in Stored /\ hist[id].statusBy = "create")
      ~> (/\ id \in Stored
          /\ orch[id].pc = "done"
          /\ hist[id].statusBy = "orchestrator"
          /\ assessments[id].status = "completed")

\* The provider never settled, and the record is completed all the same.
C1_Witness ==
  \E id \in Stored :
    /\ orch[id].provider = "called"
    /\ orch[id].race.by = "deadline"
    /\ orch[id].pc = "done"
    /\ assessments[id].status = "completed"

(***************************************************************************)
(* C2.  When the deadline settles the race, the result write stores the    *)
(* Fallback Analyzer's result with status completed, and the provider's    *)
(* settlement arriving afterwards changes no record and queues no          *)
(* continuation; once the fallback result is written, no step other than   *)
(* a PATCH request changes the record.                                     *)
(***************************************************************************)
C2_LateProviderDiscarded ==
  [][\A id \in DOMAIN orch :
       orch[id].race.by = "deadline" =>
         /\ ResultWrite(id) =>
              /\ assessments'[id].status = "completed"
              /\ ResultOf(assessments'[id])
                   = FallbackResultOf(orch[id].assessmentData)
         /\ (event'.op = "provider" /\ event'.id = id) =>
              /\ assessments' = assessments
              /\ micro' = micro
              /\ orch'[id].pc = orch[id].pc
              /\ orch'[id].race = orch[id].race
         /\ (orch[id].pc = "done" /\ event'.op # "PATCH") =>
              assessments'[id] = assessments[id]]_vars

\* The provider settled with a result after the deadline had won.
C2_Witness ==
  \E id \in Stored :
    /\ orch[id].race.by = "deadline"
    /\ orch[id].pc = "done"
    /\ orch[id].provider = "settled"
    /\ event.op = "provider" /\ event.id = id
    /\ event.response = [kind |-> "text", text |-> "good"]
    /\ ~hist[id].patched


C4_PipelineNeverFails ==
  [][\A id \in DOMAIN assessments' :
       /\ ResultWrite(id) =>
            /\ assessments'[id].status = "completed"
            /\ usesFallback(orch[id].race) =>
                 ResultOf(assessments'[id])
                   = FallbackResultOf(orch[id].assessmentData)
       /\ (/\ assessments'[id].status = "failed"
           /\ (id \in DOMAIN assessments => assessments[id].status # "failed"))
            => (event'.op = "PATCH" /\ event'.id = id)]_vars

\* The provider rejected, and the record is completed with fallback data.
C4_Witness ==
  \E id \in Stored :
    /\ orch[id].race.by = "provider"
    /\ orch[id].race.settled = "rejected"
    /\ orch[id].pc = "done"
    /\ event.op = "result" /\ event.id = id
    /\ assessments[id].status = "completed"
    /\ ResultOf(assessments[id]) = FallbackResultOf(orch[id].assessmentData)

(***************************************************************************)
(* C5.  The order pending < processing < {completed, failed}.              *)
(***************************************************************************)
statusRank(status) ==
  CASE status = "pending" -> 0
    [] status = "processing" -> 1
    [] OTHER -> 2

C6_ResultAllOrNothing ==
  \A id \in Stored :
    /\ ResultNull(assessments[id]) \/ ResultPresent(assessments[id])
    /\ ~ResultNull(assessments[id]) => assessments[id].status = "completed"

(***************************************************************************)
(* C7.  In every state, a record whose status is failed has null scores,   *)
(* vulnerabilities and recommendations.                                    *)
(***************************************************************************)
C7_FailedHasNoResult ==
  \A id \in Stored :
    assessments[id].status = "failed" => ResultNull(assessments[id])

(***************************************************************************)
(* C8.  A POST whose body has companyName, industry, logisticsRoutes or    *)
(* riskFactors missing or empty, or suppliers missing or empty, is         *)
(* answered 400 in a step that leaves the store, the list of records, the  *)
(* orchestrations and the microtask queue as they were; no record is ever  *)
(* created from such a body.                                               *)
(***************************************************************************)
C8_InvalidPostRejected ==
  [][LET FailsValidation(body) ==
           \/ \E f \in {"companyName", "industry", "logisticsRoutes",
                         "riskFactors"} :
                f \notin DOMAIN body \/ body[f] = << >>
           \/ "suppliers" \notin DOMAIN body
           \/ body.suppliers = << >>
     IN (/\ event'.op \in {"POST", "create"}
         /\ "input" \in DOMAIN event'
         /\ FailsValidation(event'.input))
          => /\ event'.op = "POST"
             /\ event'.code = 400
             /\ assessments' = assessments
             /\ order' = order
             /\ getAllAssessments(assessments', order')
                  = getAllAssessments(assessments, order)
             /\ orch' = orch
             /\ micro' = micro]_vars

\* A body with an empty suppliers list was answered 400 while the store
\* held a record.
C8_Witness ==
  /\ event.op = "POST" /\ event.code = 400
  /\ "suppliers" \in DOMAIN event.input /\ event.input.suppliers = << >>
  /\ Stored # {}

(***************************************************************************)
(* C9.  A PATCH on an id the store does not hold is answered 404 in a      *)
(* step that leaves the Map and its key order as they were: no record is   *)
(* created and every stored record is unchanged; updateAssessment on such  *)
(* an id returns undefined for every body.                                 *)
(***************************************************************************)
C9_UpdateUnknownId ==
  [][(event'.op = "PATCH" /\ event'.id \notin DOMAIN assessments)
       => /\ event'.code = 404
          /\ assessments' = assessments
          /\ order' = order
          /\ \A updates \in PatchBodies :
               updateAssessmentReturn(assessments, event'.id, updates, clock)
                 = Undefined]_vars

\* A PATCH on an unknown id was answered 404 while the store held a record.
C9_Witness ==
  /\ event.op = "PATCH" /\ event.code = 404
  /\ event.id \notin Stored
  /\ Stored # {}

(***************************************************************************)
(* C10.  What list() returns: every stored record exactly once, ordered    *)
(* by createdAt.                                                           *)
(***************************************************************************)
ListsEachRecordOnce(list) ==
  /\ Len(list) = Cardinality(Stored)
  /\ \A id \in Stored :
       \E i \in 1..Len(list) :
         /\ list[i] = assessments[id]
         /\ \A j \in 1..Len(list) : list[j].id = id => j = i

\* The place of key id in the Map's insertion order.
InsertionIndex(id) == CHOOSE k \in 1..Len(order) : order[k] = id

\* C10 as stated: each element's createdAt is strictly greater than the
\* next one's.
C10_ListStrictlyDescending ==
  event.op = "LIST" =>
    /\ ListsEachRecordOnce(event.list)
    /\ \A i \in 1..(Len(event.list) - 1) :
         event.list[i].createdAt > event.list[i + 1].createdAt

\* C10, amended: createdAt never increases along the list, and records
\* with equal createdAt keep the order in which they were created.
C10_ListDescendingStable ==
  event.op = "LIST" =>
    /\ ListsEachRecordOnce(event.list)
    /\ \A i, j \in 1..Len(event.list) :
         i < j =>
           /\ event.list[i].createdAt >= event.list[j].createdAt
           /\ event.list[i].createdAt = event.list[j].createdAt =>
                InsertionIndex(event.list[i].id) < InsertionIndex(event.list[j].id)

\* list() returned two records created at the same clock value, in the
\* order of their creation.
C10_Witness ==
  /\ event.op = "LIST"
  /\ Len(event.list) = 2
  /\ event.list[1].createdAt = event.list[2].createdAt
  /\ event.list[1].id < event.list[2].id

(***************************************************************************)
(* The server seen by clients whose PATCH bodies also carry the key and    *)
(* the facts of a record: the handler merges any field of req.body.        *)
(***************************************************************************)
AllPatchBodies ==
  {[status |-> "pending"], [status |-> "failed"]}
  \cup {[id |-> i] : i \in Ids}
  \cup {[suppliers |-> << >>], [companyName |-> <<"B">>]}

PatchNext ==
  \/ \E body \in ValidBodies : PostAccepted(body)
  \/ \E id \in Ids : PostRespond(id)
  \/ \E id \in Ids : OrchStart(id)
  \/ \E id \in Ids, response \in ApiResponses : ProviderSettles(id, response)
  \/ \E id \in Ids : DeadlineFires(id)
  \/ \E id \in Ids : OrchFinish(id)
  \/ \E id \in Ids : GetAssessment(id)
  \/ ListAssessments
  \/ \E id \in Ids, updates \in AllPatchBodies : PatchAssessment(id, updates)

PatchSpec == Init /\ [][PatchNext]_vars

(***************************************************************************)
(* C11.  In every list() response no two elements carry the same id, and   *)
(* every GET of a stored key k returns a record whose id is k.             *)
(***************************************************************************)
C11_OneRecordPerId ==
  /\ event.op = "LIST" =>
       \A i, j \in 1..Len(event.list) :
         event.list[i].id = event.list[j].id => i = j
  /\ (event.op = "GET" /\ event.code = 200) => event.record.id = event.id

(***************************************************************************)
(* createEmergencyFallback as a function of the facts alone: the initial   *)
(* state draws the facts, the step applies the function.                   *)
(***************************************************************************)
FallbackLocations ==
  {locChina, locOther,
   <<"P","o","r","t",","," ","C","H","I","N","a">>,
   <<"C","h","i","n">>}

FallbackRiskFactors ==
  {<<"P","o","r","t">>,
   <<"p","o","r","t"," ","c","o","n","g","e","s","t","i","o","n">>,
   <<"C","O","N","G","E","S","T","I","O","N">>,
   <<"a","i","r","P","O","R","T","s">>,
   <<"p","o","r">>,
   <<"f","x">>}

FallbackSuppliers ==
  UNION {[1..n -> {Supplier(loc) : loc \in FallbackLocations}] :
           n \in 1..MaxSuppliers}

FallbackFacts ==
  {[safeParseData(BodyTwoPlain) EXCEPT !.suppliers = sup, !.riskFactors = rf] :
     sup \in FallbackSuppliers, rf \in FallbackRiskFactors}

FallbackInit ==
  /\ assessments = << >>
  /\ order = << >>
  /\ clock = 0
  /\ orch = << >>
  /\ micro = << >>
  /\ event \in {[op |-> "facts", data |-> d] : d \in FallbackFacts}
  /\ hist = << >>
  /\ nPatch = 0
  /\ client = clientInitial

FallbackApply ==
  /\ event.op = "facts"
  /\ event' = [op |-> "fallback", data |-> event.data,
               result |-> createEmergencyFallback(event.data)]
  /\ UNCHANGED <<assessments, order, clock, orch, micro, hist, nPatch, client>>

FallbackNext == FallbackApply

FallbackSpec == FallbackInit /\ [][FallbackNext]_vars

(***************************************************************************)
(* C12.  The four scores of the Fallback Analyzer: 8 for exactly one       *)
(* supplier, else 5; 7 when riskFactors contains "port" or "congestion"    *)
(* in any letter case, else 4; 7 when some supplier's location contains    *)
(* "china" in any letter case, else 4; the overall score is the mean of    *)
(* the three rounded to the nearest integer.                               *)
(***************************************************************************)
C12_FallbackScores ==
  event.op = "fallback" =>
    LET SameLetter(a, b) ==
          a = b \/ \E k \in 1..26 : {a, b} = {Upper[k], Lower[k]}
        Contains(text, word) ==
          \E i \in 0..(Len(text) - Len(word)) :
            \A j \in 1..Len(word) : SameLetter(text[i + j], word[j])
        facts == event.data
        supplier == IF Len(facts.suppliers) = 1 THEN 8 ELSE 5
        logistics ==
          IF Contains(facts.riskFactors, <<"p","o","r","t">>)
             \/ Contains(facts.riskFactors,
                         <<"c","o","n","g","e","s","t","i","o","n">>)
          THEN 7 ELSE 4
        geopolitical ==
          IF \E i \in 1..Len(facts.suppliers) :
               Contains(facts.suppliers[i].location, <<"c","h","i","n","a">>)
          THEN 7 ELSE 4
        sum == supplier + logistics + geopolitical
        overall == CHOOSE r \in 0..10 : 6 * r - 3 <= 2 * sum /\ 2 * sum < 6 * r + 3
    IN /\ event.result.scores.supplierRiskScore = Num(supplier)
       /\ event.result.scores.logisticsRiskScore = Num(logistics)
       /\ event.result.scores.geopoliticalRiskScore = Num(geopolitical)
       /\ event.result.scores.overallRiskScore = Num(overall)
       /\ (supplier = 8 /\ logistics = 7 /\ geopolitical = 7) => overall = 7
       /\ (supplier = 5 /\ logistics = 4 /\ geopolitical = 4) => overall = 4

\* One supplier in "Port, CHINa" with risk factors "airPORTs": 8, 7, 7
\* and overall 7.
C12_Witness ==
  /\ event.op = "fallback"
  /\ Len(event.data.suppliers) = 1
  /\ event.data.suppliers[1].location
       = <<"P","o","r","t",","," ","C","H","I","N","a">>
  /\ event.data.riskFactors = <<"a","i","r","P","O","R","T","s">>
  /\ event.result.scores
       = [overallRiskScore |-> Num(7), supplierRiskScore |-> Num(8),
          logisticsRiskScore |-> Num(7), geopoliticalRiskScore |-> Num(7)]

(***************************************************************************)
(* C13.  Two invocations of the Fallback Analyzer with identical facts     *)
(* give identical results: two records created from the same facts and     *)
(* completed by the fallback, at whatever times and with whatever else in  *)
(* the store, hold the same scores, vulnerabilities and recommendations    *)
(* (as long as no PATCH has modified them).                                *)
(***************************************************************************)
C13_FallbackDeterministic ==
  \A i, j \in Stored :
    (/\ orch[i].pc = "done" /\ orch[j].pc = "done"
     /\ usesFallback(orch[i].race) /\ usesFallback(orch[j].race)
     /\ ~hist[i].patched /\ ~hist[j].patched
     /\ orch[i].assessmentData = orch[j].assessmentData)
      => ResultOf(assessments[i]) = ResultOf(assessments[j])

\* Two records with the same facts were completed by the fallback at
\* different times, the second while the store held the first's result.
C13_Witness ==
  \E i, j \in Stored :
    /\ i # j
    /\ orch[i].pc = "done" /\ orch[j].pc = "done"
    /\ usesFallback(orch[i].race) /\ usesFallback(orch[j].race)
    /\ ~hist[i].patched /\ ~hist[j].patched
    /\ orch[i].assessmentData = orch[j].assessmentData
    /\ assessments[i].updatedAt # assessments[j].updatedAt

(***************************************************************************)
(* C14.  Every record the orchestrator has completed (and no PATCH has     *)
(* modified) has its four scores numbers in [0,10] and its vulnerabilities *)
(* and recommendations present.                                            *)
(***************************************************************************)
C14_CompletedResultConforms ==
  \A id \in Stored :
    (/\ orch[id].pc = "done"
     /\ ~hist[id].patched
     /\ assessments[id].status = "completed")
      => /\ \A f \in ScoreFields :
              /\ assessments[id][f][1] = "num"
              /\ assessments[id][f][2] \in 0..10
         /\ \A f \in ListFields : ~IsNullish(assessments[id][f])

(***************************************************************************)
(* C15.  createAssessment returns a record whose id no stored record has,  *)
(* with status pending, the six result fields null and createdAt equal to  *)
(* updatedAt; in the state it leaves, getAssessment(id) returns that       *)
(* record, getAllAssessments contains it, and the records stored before    *)
(* are as they were.                                                       *)
(***************************************************************************)
C15_CreateReturnsFreshPending ==
  [][(event'.op = "create" /\ "record" \in DOMAIN event')
       => /\ event'.record.id = event'.id
          /\ event'.id \notin DOMAIN assessments
          /\ \A k \in DOMAIN assessments : assessments[k].id # event'.record.id
          /\ event'.record.status = "pending"
          /\ ResultNull(event'.record)
          /\ event'.record.createdAt = event'.record.updatedAt
          /\ getAssessment(assessments', event'.id) = Found(event'.record)
          /\ \E i \in 1..Len(order') :
               getAllAssessments(assessments', order')[i] = event'.record
          /\ \A k \in DOMAIN assessments : assessments'[k] = assessments[k]]_vars

\* A second record was created after the clock had moved on.
C15_Witness ==
  /\ event.op = "create" /\ "record" \in DOMAIN event
  /\ event.id = 2
  /\ event.record.createdAt > assessments[1].createdAt
  /\ getAssessment(assessments, 2) = Found(event.record)

(***************************************************************************)
(* C16.  No step changes the facts of a stored record (companyName,        *)
(* industry, suppliers, logisticsRoutes, transportationMethods,            *)
(* riskFactors), and no step leaves a record with an empty suppliers       *)
(* sequence.                                                               *)
(***************************************************************************)
C16_FactsImmutable ==
  [][\A id \in DOMAIN assessments :
       /\ \A f \in FactFields : assessments'[id][f] = assessments[id][f]
       /\ assessments'[id].suppliers # << >>]_vars

(***************************************************************************)
(* C17.  A result write that finds the record's status no longer           *)
(* processing leaves the record as it is.                                  *)
(***************************************************************************)
C17_ResultOnlyIfProcessing ==
  [][\A id \in DOMAIN assessments :
       (ResultWrite(id) /\ assessments[id].status # "processing")
         => assessments'[id] = assessments[id]]_vars

(***************************************************************************)
(* C18.  Per submission the orchestrator issues one result write: it       *)
(* stores status completed with either the provider's result or the        *)
(* fallback's, after it no step but a PATCH request changes the record,    *)
(* and the settlement of the provider or of the deadline timer writes      *)
(* nothing itself; the one that settles second queues no continuation.     *)
(***************************************************************************)
C18_OneResultWrite ==
  [][\A id \in DOMAIN orch :
       /\ ResultWrite(id) =>
            /\ orch[id].pc = "raceSettled"
            /\ orch'[id].pc = "done"
            /\ assessments'[id].status = "completed"
            /\ ResultOf(assessments'[id])
                 = IF usesFallback(orch[id].race)
                   THEN FallbackResultOf(orch[id].assessmentData)
                   ELSE ResultOf(completedUpdate(orch[id].race.value))
       /\ orch[id].pc = "done" =>
            /\ orch'[id].pc = "done"
            /\ assessments'[id] # assessments[id] =>
                 (event'.op = "PATCH" /\ event'.id = id)
       /\ (event'.op \in {"provider", "deadline"} /\ event'.id = id) =>
            /\ assessments' = assessments
            /\ orch[id].race.settled # "pending" =>
                 /\ micro' = micro
                 /\ orch'[id].race = orch[id].race
                 /\ orch'[id].pc = orch[id].pc]_vars

\* The provider's result was written, and the deadline timer fired
\* afterwards.
C18_Witness ==
  \E id \in Stored :
    /\ orch[id].race.by = "provider"
    /\ orch[id].race.settled = "resolved"
    /\ orch[id].pc = "done"
    /\ orch[id].timer = "fired"
    /\ event.op = "deadline" /\ event.id = id
    /\ assessments[id].status = "completed"

(***************************************************************************)
(* C19.  The provider is called at most once per submission: a call is     *)
(* made only by the step that starts the race, only for a submission       *)
(* whose provider has not been called before, and a submission whose       *)
(* provider has been called never returns to the state before the call.    *)
(* Neither a provider failure, nor the deadline, nor a PATCH request       *)
(* calls it again.  A submission that has reached the race has had its     *)
(* call.                                                                   *)
(***************************************************************************)
C19_ProviderCalledOnce ==
  [][\A id \in DOMAIN orch' :
       /\ (event'.op = "race" /\ event'.id = id) =>
            (id \in DOMAIN orch /\ orch[id].provider = "none")
       /\ (orch'[id].provider = "called"
             /\ (id \notin DOMAIN orch \/ orch[id].provider # "called")) =>
            (event'.op = "race" /\ event'.id = id)
       /\ (id \in DOMAIN orch /\ orch[id].provider # "none") =>
            orch'[id].provider # "none"
       /\ orch'[id].pc \in {"racing", "raceSettled", "done"} =>
            orch'[id].provider # "none"]_vars

\* The provider call failed, the fallback was written, and a PATCH request
\* has put the record back to pending: the provider is not called again.
C19_Witness ==
  \E id \in Stored :
    /\ orch[id].race.by = "provider"
    /\ orch[id].race.settled = "rejected"
    /\ orch[id].provider = "settled"
    /\ orch[id].pc = "done"
    /\ event.op = "PATCH" /\ event.id = id /\ event.code = 200
    /\ assessments[id].status = "pending"
    /\ hist[id].statusBy = "patch"

UpdatePartials ==
  {[status |-> "processing"],
   [createdAt |-> MaxClock],
   [updatedAt |-> 0],
   [updatedAt |-> MaxClock],
   [status |-> "failed", updatedAt |-> 0]}

UpdateCall(id, updates) ==
  /\ \E now \in Now :
       /\ clock' = IF id \in DOMAIN assessments THEN now ELSE clock
       /\ assessments' = updateAssessment(assessments, id, updates, now)
       /\ event' = [op |-> "update", id |-> id, updates |-> updates,
                    now |-> now,
                    returned |-> updateAssessmentReturn(assessments, id,
                                                        updates, now)]
  /\ UNCHANGED <<order, orch, micro, hist, nPatch, client>>

UpdateNext ==
  \/ \E body \in {BodySingleChinaPort, BodyTwoPlain} : StoreCreate(body)
  \/ \E id \in Ids, updates \in UpdatePartials : UpdateCall(id, updates)
  \/ \E id \in Ids : GetAssessment(id)

UpdateSpec == Init /\ [][UpdateNext]_vars

(***************************************************************************)
(* C21.  updateAssessment(id, partial) on a stored id sets the fields      *)
(* named in partial other than updatedAt to the partial's values, sets     *)
(* updatedAt to the time of the call whatever partial says, leaves every   *)
(* other field of the record, createdAt included, as it was, and returns   *)
(* the record it stored.                                                   *)
(***************************************************************************)
C21_UpdateFrame ==
  [][(event'.op = "update" /\ event'.id \in DOMAIN assessments) =>
       LET id == event'.id
           partial == event'.updates
           old == assessments[id]
           new == assessments'[id]
       IN /\ new.updatedAt = event'.now
          /\ \A f \in (DOMAIN partial) \ {"updatedAt"} : new[f] = partial[f]
          /\ \A f \in (DOMAIN old) \ ((DOMAIN partial) \cup {"updatedAt"}) :
               new[f] = old[f]
          /\ "createdAt" \notin DOMAIN partial => new.createdAt = old.createdAt
          /\ DOMAIN new = DOMAIN old
          /\ event'.returned = Found(new)]_vars

\* An update whose partial supplied an updatedAt other than the time of the
\* call has been applied.
C21_Witness ==
  /\ event.op = "update"
  /\ event.id \in Stored
  /\ "updatedAt" \in DOMAIN event.updates
  /\ "status" \in DOMAIN event.updates
  /\ event.updates.updatedAt # event.now
  /\ assessments[event.id].updatedAt = event.now
  /\ assessments[event.id].status = "failed"

(***************************************************************************)
(* C22.  A step of the server concerns at most one id: creation, the       *)
(* 201 response with the processing write, the start of the race, a        *)
(* settlement, the result write, GET and PATCH of id A leave the record    *)
(* and the orchestration of every other id B as they were, and a step      *)
(* that concerns no id (the list, a rejected POST) leaves every record     *)
(* as it was.                                                              *)
(***************************************************************************)
C22_OtherRecordsUnchanged ==
  [][\A B \in DOMAIN assessments :
       ("id" \notin DOMAIN event' \/ event'.id # B) =>
         /\ B \in DOMAIN assessments'
         /\ assessments'[B] = assessments[B]
         /\ orch'[B] = orch[B]]_vars

\* Two submissions in flight: the result of one has just been written while
\* the other is still racing with status processing.
C22_Witness ==
  \E A, B \in Stored :
    /\ A # B
    /\ event.op = "result" /\ event.id = A
    /\ assessments[A].status = "completed"
    /\ orch[B].pc = "racing"
    /\ assessments[B].status = "processing"
    /\ ResultNull(assessments[B])

(***************************************************************************)
(* C23.  The steps of a submission come in one order.  Creation stores     *)
(* the record with status pending; the 201 response carries that pending   *)
(* record and is produced before the provider is called or the timer       *)
(* set; the processing write follows the response in the same step; the    *)
(* provider call and the timer start together after that write; the        *)
(* result write comes only after both were started.                        *)
(***************************************************************************)
C23_SubmissionOrder ==
  [][\A id \in DOMAIN orch' :
       /\ (event'.op = "create" /\ event'.id = id) =>
            /\ id \notin DOMAIN orch
            /\ assessments'[id].status = "pending"
            /\ orch'[id].pc = "postAwait"
            /\ orch'[id].provider = "none" /\ orch'[id].timer = "none"
       /\ (event'.op = "POST" /\ event'.code = 201 /\ event'.id = id) =>
            /\ orch[id].pc = "postAwait"
            /\ orch[id].provider = "none" /\ orch[id].timer = "none"
            /\ event'.record.status = "pending"
            /\ event'.record = orch[id].assessment
            /\ assessments'[id].status = "processing"
            /\ orch'[id].pc = "orchAwait"
            /\ orch'[id].provider = "none" /\ orch'[id].timer = "none"
       /\ (event'.op = "race" /\ event'.id = id) =>
            /\ orch[id].pc = "orchAwait"
            /\ orch'[id].pc = "racing"
            /\ orch'[id].provider = "called" /\ orch'[id].timer = "armed"
       /\ ResultWrite(id) =>
            /\ orch[id].pc = "raceSettled"
            /\ orch[id].provider # "none" /\ orch[id].timer # "none"
       /\ orch'[id].pc \in {"postAwait", "orchAwait"} =>
            (orch'[id].provider = "none" /\ orch'[id].timer = "none")]_vars

\* The 201 response has just been produced from the pending record: the
\* store already holds status processing and the provider has not been
\* called.
C23_Witness ==
  \E id \in Stored :
    /\ event.op = "POST" /\ event.code = 201 /\ event.id = id
    /\ event.record.status = "pending"
    /\ assessments[id].status = "processing"
    /\ orch[id].pc = "orchAwait"
    /\ orch[id].provider = "none"
    /\ orch[id].timer = "none"

(***************************************************************************)
(* The server with its health endpoint.  checkGeminiApiHealth makes a      *)
(* call of its own to the provider and reports whether the reply holds     *)
(* "ok"; the handler answers with it.  For each submission in flight the   *)
(* history records the last health report produced during its              *)
(* orchestration.                                                          *)
(***************************************************************************)
txtOk == <<"o", "k">>

HealthResponses ==
  {[kind |-> "reject", text |-> << >>],
   [kind |-> "undefined", text |-> << >>],
   [kind |-> "text", text |-> <<"O", "K">>],
   [kind |-> "text", text |-> <<"n", "o">>]}

\* response.text?.toLowerCase().includes('ok') || false, and false when the
\* call throws.
checkGeminiApiHealth(response) ==
  IF response.kind = "reject" THEN FALSE
  ELSE IF response.kind = "undefined" THEN FALSE
  ELSE includes(toLowerCase(response.text), txtOk)

\* A health handler that marks the records in flight failed when the
\* provider is not reachable.
HealthCheckFailsRecords(response) ==
  /\ micro = << >>
  /\ \E gemini \in {IF checkGeminiApiHealth(response)
                    THEN "connected" ELSE "disconnected"},
        now \in Now :
       /\ event' = [op |-> "HEALTH", code |-> 200, gemini |-> gemini]
       /\ clock' = now
       /\ assessments' =
            [id \in DOMAIN assessments |->
               IF gemini = "disconnected" /\ orch[id].pc # "done"
               THEN mergeUpdates(assessments[id], [status |-> "failed"], now)
               ELSE assessments[id]]
       /\ hist' = [id \in DOMAIN hist |->
                     IF orch[id].pc # "done"
                     THEN [f \in (DOMAIN hist[id]) \cup {"health"} |->
                             IF f = "health" THEN gemini ELSE hist[id][f]]
                     ELSE hist[id]]
  /\ UNCHANGED <<order, orch, micro, nPatch, client>>

\* GET /api/health
HealthCheck(response) ==
  /\ micro = << >>
  /\ \E gemini \in {IF checkGeminiApiHealth(response)
                    THEN "connected" ELSE "disconnected"} :
       /\ event' = [op |-> "HEALTH", code |-> 200, gemini |-> gemini]
       /\ hist' = [id \in DOMAIN hist |->
                     IF orch[id].pc # "done"
                     THEN [f \in (DOMAIN hist[id]) \cup {"health"} |->
                             IF f = "health" THEN gemini ELSE hist[id][f]]
                     ELSE hist[id]]
  /\ UNCHANGED <<assessments, order, clock, orch, micro, nPatch, client>>

HealthNext ==
  \/ \E body \in ValidBodies : PostAccepted(body)
  \/ \E id \in Ids : PostRespond(id)
  \/ \E id \in Ids : OrchStart(id)
  \/ \E id \in Ids, response \in ApiResponses : ProviderSettles(id, response)
  \/ \E id \in Ids : DeadlineFires(id)
  \/ \E id \in Ids : OrchFinish(id)
  \/ \E response \in HealthResponses : HealthCheck(response)

HealthSpec == Init /\ [][HealthNext]_vars

(***************************************************************************)
(* C24.  A health request changes no record and no orchestration, and      *)
(* two finished submissions with the same facts and the same outcome of    *)
(* the race hold the same status and the same result, whatever the         *)
(* health endpoint reported while each was in flight.                      *)
(***************************************************************************)
C24_HealthIsAdvisory ==
  [][/\ event'.op = "HEALTH" => (assessments' = assessments /\ orch' = orch)
     /\ \A A, B \in DOMAIN orch' :
          (/\ orch'[A].pc = "done" /\ orch'[B].pc = "done"
           /\ orch'[A].assessmentData = orch'[B].assessmentData
           /\ orch'[A].race.settled = orch'[B].race.settled
           /\ orch'[A].race.value = orch'[B].race.value)
          => /\ assessments'[A].status = assessments'[B].status
             /\ ResultOf(assessments'[A]) = ResultOf(assessments'[B])]_vars

\* Two finished submissions with the same facts and the same outcome; the
\* health endpoint reported connected during one and disconnected during
\* the other.
C24_Witness ==
  \E A, B \in Stored :
    /\ A # B
    /\ orch[A].pc = "done" /\ orch[B].pc = "done"
    /\ orch[A].assessmentData = orch[B].assessmentData
    /\ orch[A].race.settled = "resolved"
    /\ orch[A].race = orch[B].race
    /\ "health" \in DOMAIN hist[A] /\ hist[A].health = "connected"
    /\ "health" \in DOMAIN hist[B] /\ hist[B].health = "disconnected"
    /\ ResultPresent(assessments[A])

(***************************************************************************)
(* C25.  For every facts value the Fallback Analyzer returns two           *)
(* vulnerabilities and two recommendations; the score of the first         *)
(* vulnerability is supplierRiskScore, the score of the second is          *)
(* logisticsRiskScore; each of the four scores is a number from 0 to 10.   *)
(***************************************************************************)
C25_FallbackShape ==
  event.op = "fallback" =>
    LET result == event.result
        vulnerabilities == result.vulnerabilities[2]
        recommendations == result.recommendations[2]
    IN /\ result.vulnerabilities[1] = "arr"
       /\ result.recommendations[1] = "arr"
       /\ Len(vulnerabilities) = 2
       /\ Len(recommendations) = 2
       /\ Num(vulnerabilities[1].score) = result.scores.supplierRiskScore
       /\ Num(vulnerabilities[2].score) = result.scores.logisticsRiskScore
       /\ DOMAIN result.scores = ScoreFields
       /\ \A f \in ScoreFields :
            \E n \in 0..10 : result.scores[f] = Num(n)

\* Two suppliers outside China and risk factors naming a port: the first
\* vulnerability scores 5, the second 7, the geopolitical score is 4.
C25_Witness ==
  /\ event.op = "fallback"
  /\ Len(event.data.suppliers) = 2
  /\ event.result.scores.supplierRiskScore = Num(5)
  /\ event.result.scores.logisticsRiskScore = Num(7)
  /\ event.result.scores.geopoliticalRiskScore = Num(4)
  /\ event.result.vulnerabilities[2][1].score = 5
  /\ event.result.vulnerabilities[2][2].score = 7
  /\ Len(event.result.recommendations[2]) = 2

(***************************************************************************)
(* createEmergencyFallback on JSON values of any type.  A JSON value is    *)
(* <<"str", text>>, <<"num", n>>, <<"arr", elements>>, <<"obj",            *)
(* properties>> or <<"null">>; a property an object lacks reads as         *)
(* undefined.  The schema is assessmentInputSchema on such values; the     *)
(* function throws a TypeError where it calls toLowerCase on a value that  *)
(* is neither nullish nor a string, calls some on a value that is neither  *)
(* nullish nor an array, or reads location of a nullish element.           *)
(***************************************************************************)
Str(text) == <<"str", text>>

\* A string check that accepts any value that is present.
zStringAny(v) == ~IsNullish(v)

\* z.string().min(1)
zStringMin1(v) == v[1] = "str" /\ Len(v[2]) >= 1

supplierSchemaJSON(s) ==
  /\ s[1] = "obj"
  /\ zStringMin1(Get(s, "name"))
  /\ zStringMin1(Get(s, "location"))
  /\ Get(s, "criticality")[1] = "str"
  /\ Get(s, "criticality")[2] \in {"High", "Medium", "Low"}
  /\ zStringMin1(Get(s, "products"))

assessmentInputSchema(body) ==
  /\ body[1] = "obj"
  /\ zStringMin1(Get(body, "companyName"))
  /\ zStringMin1(Get(body, "industry"))
  /\ Get(body, "suppliers")[1] = "arr"
  /\ Len(Get(body, "suppliers")[2]) >= 1
  /\ \A i \in 1..Len(Get(body, "suppliers")[2]) :
       supplierSchemaJSON(Get(body, "suppliers")[2][i])
  /\ zStringMin1(Get(body, "logisticsRoutes"))
  /\ Get(body, "transportationMethods")[1] = "obj"
  /\ zStringMin1(Get(body, "riskFactors"))

\* data.riskFactors?.toLowerCase()
fallbackHasPortRiskThrows(data) ==
  /\ ~IsNullish(Get(data, "riskFactors"))
  /\ Get(data, "riskFactors")[1] # "str"

\* s.location?.toLowerCase() in the callback of some
someElementThrows(s) ==
  \/ IsNullish(s)
  \/ /\ ~IsNullish(Get(s, "location"))
     /\ Get(s, "location")[1] # "str"

\* The callback of some returns true.
someElementTruthy(s) ==
  /\ ~someElementThrows(s)
  /\ Get(s, "location")[1] = "str"
  /\ includes(toLowerCase(Get(s, "location")[2]), txtChina)

\* data.suppliers?.some(...): the elements are visited in order up to the
\* first for which the callback returns true.
fallbackHasChinaRiskThrows(data) ==
  LET suppliers == Get(data, "suppliers")
  IN IF IsNullish(suppliers) THEN FALSE
     ELSE IF suppliers[1] # "arr" THEN TRUE
     ELSE \E i \in 1..Len(suppliers[2]) :
            /\ someElementThrows(suppliers[2][i])
            /\ \A j \in 1..(i - 1) : ~someElementTruthy(suppliers[2][j])

createEmergencyFallbackThrows(data) ==
  \/ IsNullish(data)
  \/ fallbackHasPortRiskThrows(data)
  \/ fallbackHasChinaRiskThrows(data)

\* An object with the properties of rec that are not undefined.
Props(rec) ==
  Obj([k \in {p \in DOMAIN rec : rec[p] # Undefined} |-> rec[k]])

JSONRiskFactors ==
  {Str(<<"P","o","r","t">>), Str(<< >>), Num(3), Null, Arr(<< >>), Undefined}

JSONLocations ==
  {Str(locChina), Str(locOther), Str(<< >>), Num(3), Null, Undefined}

JSONSupplier(loc) ==
  Props([name |-> Str(<<"s">>), location |-> loc,
         criticality |-> Str("High"), products |-> Str(<<"x">>)])

JSONSupplierElements ==
  {JSONSupplier(loc) : loc \in JSONLocations} \cup {Null}

JSONSuppliers ==
  {Null, Undefined, Str(<<"x">>), Arr(<< >>)}
  \cup UNION {{Arr(s) : s \in [1..n -> JSONSupplierElements]} :
                n \in 1..MaxSuppliers}

JSONBody(riskFactors, suppliers) ==
  Props([companyName |-> Str(<<"A">>), industry |-> Str(<<"i">>),
         suppliers |-> suppliers,
         logisticsRoutes |-> Str(<<"r">>),
         transportationMethods |-> Obj([ocean |-> TRUE]),
         riskFactors |-> riskFactors])

JSONBodies ==
  {JSONBody(rf, sup) : rf \in JSONRiskFactors, sup \in JSONSuppliers}

TotalInit ==
  /\ assessments = << >>
  /\ order = << >>
  /\ clock = 0
  /\ orch = << >>
  /\ micro = << >>
  /\ event \in {[op |-> "body", body |-> b] : b \in JSONBodies}
  /\ hist = << >>
  /\ nPatch = 0
  /\ client = clientInitial

\* The catch block of processAssessmentAsync with the value as its
\* assessmentData: the fallback is computed and, when it returned, the
\* completed write is issued.
FallbackCall ==
  /\ event.op = "body"
  /\ event' = [op |-> "catch", body |-> event.body,
               valid |-> assessmentInputSchema(event.body),
               threw |-> createEmergencyFallbackThrows(event.body),
               write |-> IF createEmergencyFallbackThrows(event.body)
                         THEN "none" ELSE "completed"]
  /\ UNCHANGED <<assessments, order, clock, orch, micro, hist, nPatch, client>>

TotalNext == FallbackCall

TotalSpec == TotalInit /\ [][TotalNext]_vars

(***************************************************************************)
(* C26.  For every value that passes assessmentInputSchema the Fallback    *)
(* Analyzer returns without throwing, and the catch block issues its       *)
(* completed write.                                                        *)
(***************************************************************************)
C26_FallbackTotal ==
  (event.op = "catch" /\ event.valid) =>
    (~event.threw /\ event.write = "completed")

\* The fallback has been computed for a valid body with as many suppliers
\* as the bound allows, the first of them in China.
C26_Witness ==
  /\ event.op = "catch"
  /\ event.valid
  /\ ~event.threw
  /\ event.write = "completed"
  /\ Len(Get(event.body, "suppliers")[2]) = MaxSuppliers
  /\ Get(Get(event.body, "suppliers")[2][1], "location") = Str(locChina)

(***************************************************************************)
(* client/src/pages/main-dashboard.tsx and assessment-results.tsx: the     *)
(* dashboard of one browser with the server.  The query of the current     *)
(* record fetches GET /api/assessments/:id; React runs a pending effect    *)
(* before the next event of the page is handled.                           *)
(***************************************************************************)
\* An interval that stops only at completed.
refetchIntervalUntilCompleted(data) ==
  IF data # "completed" THEN <<"ms", 2000>> ELSE <<"false">>

\* data?.status === "processing" ? 2000 : false
refetchInterval(data) ==
  IF data = "processing" THEN <<"ms", 2000>> ELSE <<"false">>

\* The effect of AssessmentResults has to run: the record rendered is
\* completed or failed and isProcessing is set.
effectPending ==
  client.isProcessing /\ client.data \in {"completed", "failed"}

\* onSuccess of the form's mutation: onAssessmentCreated(assessment.id).
\* The query of the new key is enabled, has no data and fetches.
OnAssessmentCreated(id) ==
  /\ id \in DOMAIN orch
  /\ orch[id].pc # "postAwait"
  /\ id > client.currentAssessmentId
  /\ ~effectPending
  /\ client' = [currentAssessmentId |-> id, isProcessing |-> TRUE,
                data |-> "none", fetching |-> TRUE, interval |-> FALSE]
  /\ event' = [op |-> "created", id |-> id]
  /\ UNCHANGED <<assessments, order, clock, orch, micro, hist, nPatch>>

\* The fetch of the current record is served and its response reaches the
\* query; refetchInterval is evaluated on the new data.
ClientFetch ==
  /\ micro = << >>
  /\ client.fetching
  /\ IsFound(getAssessment(assessments, client.currentAssessmentId))
  /\ \E record \in {getAssessment(assessments, client.currentAssessmentId)[2]} :
       /\ event' = [op |-> "GET", id |-> client.currentAssessmentId,
                    code |-> 200, record |-> record]
       /\ client' = [client EXCEPT
                       !.data = record.status,
                       !.fetching = FALSE,
                       !.interval = (refetchInterval(record.status)[1] = "ms")]
  /\ UNCHANGED <<assessments, order, clock, orch, micro, hist, nPatch>>

\* The refetch interval elapses: the query fetches again.
ClientIntervalFires ==
  /\ client.interval
  /\ ~client.fetching
  /\ ~effectPending
  /\ client' = [client EXCEPT !.fetching = TRUE, !.interval = FALSE]
  /\ event' = [op |-> "refetch", id |-> client.currentAssessmentId]
  /\ UNCHANGED <<assessments, order, clock, orch, micro, hist, nPatch>>

\* useEffect of AssessmentResults: onProcessingComplete().
ClientEffect ==
  /\ effectPending
  /\ client' = [client EXCEPT !.isProcessing = FALSE]
  /\ event' = [op |-> "effect", id |-> client.currentAssessmentId]
  /\ UNCHANGED <<assessments, order, clock, orch, micro, hist, nPatch>>

\* The provider rejects or answers with a conforming result; other clients
\* PATCH the status.
ClientResponses ==
  {[kind |-> "reject", text |-> ""], [kind |-> "text", text |-> "good"]}

ClientPatches == {[status |-> "pending"], [status |-> "failed"]}

ClientNext ==
  \/ \E body \in ValidBodies : PostAccepted(body)
  \/ \E id \in Ids : PostRespond(id)
  \/ \E id \in Ids : OrchStart(id)
  \/ \E id \in Ids, response \in ClientResponses : ProviderSettles(id, response)
  \/ \E id \in Ids : DeadlineFires(id)
  \/ \E id \in Ids : OrchFinish(id)
  \/ \E id \in Ids, updates \in ClientPatches : PatchAssessment(id, updates)
  \/ \E id \in Ids : OnAssessmentCreated(id)
  \/ ClientFetch
  \/ ClientIntervalFires
  \/ ClientEffect

ClientSpec == Init /\ [][ClientNext]_vars /\ WF_vars(ClientEffect)

(***************************************************************************)
(* C27.  After a submission has set isProcessing, the dashboard has a      *)
(* refetch scheduled or under way whenever the status it fetched last is   *)
(* processing, refetches only then, has none once the status it fetched    *)
(* is anything else, and once it has fetched completed or failed it        *)
(* eventually clears isProcessing.                                         *)
(***************************************************************************)
C27_ClientPolling ==
  /\ [](/\ client.interval => client.data = "processing"
        /\ client.data = "processing" => (client.interval \/ client.fetching)
        /\ client.data \in {"pending", "completed", "failed"} =>
             (~client.interval /\ ~client.fetching))
  /\ [][event'.op = "refetch" =>
          (client.data = "processing" /\ client.isProcessing)]_vars
  /\ (client.isProcessing /\ client.data \in {"completed", "failed"})
       ~> ~client.isProcessing

\* The dashboard refetched a record it had fetched as processing, got it
\* completed, stopped refetching and cleared isProcessing.
C27_Witness ==
  /\ event.op = "effect"
  /\ client.currentAssessmentId \in Stored
  /\ client.data = "completed"
  /\ ~client.isProcessing
  /\ ~client.interval
  /\ ~client.fetching
  /\ assessments[client.currentAssessmentId].status = "completed"

(***************************************************************************)
(* C28.  The 201 response and the processing write are one step, taken     *)
(* from the pending record before any request handler runs: whenever a     *)
(* request handler can run, no record that no PATCH has modified has       *)
(* status pending, so no GET of a record and no list returns such a        *)
(* record with status pending.                                             *)
(***************************************************************************)
C28_PendingNeverObserved ==
  [][/\ \A id \in DOMAIN orch :
          (event'.op = "POST" /\ event'.code = 201 /\ event'.id = id) =>
            /\ assessments[id].status = "pending"
            /\ assessments'[id].status = "processing"
            /\ event.op = "create" /\ event.id = id
     /\ micro' = << >> =>
          \A id \in DOMAIN assessments' :
            ~hist'[id].patched => assessments'[id].status # "pending"
     /\ (event'.op = "GET" /\ event'.code = 200
           /\ ~hist'[event'.id].patched) =>
          event'.record.status # "pending"
     /\ event'.op = "LIST" =>
          \A i \in DOMAIN event'.list :
            ~hist'[event'.list[i].id].patched =>
              event'.list[i].status # "pending"]_vars

\* The list returns two records no PATCH has modified, one of them still
\* processing.
C28_Witness ==
  /\ event.op = "LIST"
  /\ Len(event.list) = 2
  /\ \A i \in DOMAIN event.list : ~hist[event.list[i].id].patched
  /\ \E i \in DOMAIN event.list : event.list[i].status = "processing"
  /\ \E i \in DOMAIN event.list :
       /\ orch[event.list[i].id].pc = "racing"
       /\ ResultNull(event.list[i])

(***************************************************************************)
(* C29.  A record whose orchestration has finished and whose status a      *)
(* PATCH request has set to pending keeps status pending until a PATCH     *)
(* request of that record changes it: no step of the orchestrator          *)
(* follows for it, neither a processing write nor a start of the race      *)
(* with its provider call nor a result write.                              *)
(***************************************************************************)
C29_PatchStartsNothing ==
  [][\A id \in DOMAIN assessments :
       LET stepOf(ops) ==
             /\ event'.op \in ops
             /\ "id" \in DOMAIN event'
             /\ event'.id = id
       IN /\ stepOf({"PATCH"}) => (orch'[id] = orch[id] /\ micro' = micro)
          /\ (/\ orch[id].pc = "done"
              /\ hist[id].statusBy = "patch"
              /\ assessments[id].status = "pending")
             => /\ orch'[id].pc = "done"
                /\ orch'[id].provider # "called" \/ orch[id].provider = "called"
                /\ ~stepOf({"race", "result", "POST"})
                /\ assessments'[id].status # "pending" => stepOf({"PATCH"})
                /\ ~stepOf({"PATCH"}) => assessments'[id] = assessments[id]]_vars

\* The retry PATCH came after the result write; the deadline timer of the
\* finished orchestration fired later and the record is still pending.
C29_Witness ==
  \E id \in Stored :
    /\ orch[id].pc = "done"
    /\ hist[id].statusBy = "patch"
    /\ assessments[id].status = "pending"
    /\ ResultPresent(assessments[id])
    /\ event.op = "deadline" /\ event.id = id
    /\ orch[id].timer = "fired"
    /\ orch[id].race.by = "provider"

(***************************************************************************)
(* The revision of services/gemini.ts whose provider call has a            *)
(* 15-second timeout of its own and, when that fires, returns              *)
(* createFallbackAnalysis(assessmentData).  Both fallbacks are applied to  *)
(* the same facts.                                                         *)
(***************************************************************************)
\* The scores of createFallbackAnalysis.
createFallbackAnalysisScores(data) ==
  LET supplierRisk == IF Len(data.suppliers) = 1 THEN 8 ELSE 5
      logisticsRisk ==
        IF includes(toLowerCase(data.riskFactors), txtPort) THEN 7 ELSE 4
      geopoliticalRisk ==
        IF \E i \in 1..Len(data.suppliers) :
             includes(toLowerCase(data.suppliers[i].location), txtChina)
        THEN 7 ELSE 4
      overallRisk == RoundThird(supplierRisk + logisticsRisk + geopoliticalRisk)
  IN [overallRiskScore |-> Num(overallRisk),
      supplierRiskScore |-> Num(supplierRisk),
      logisticsRiskScore |-> Num(logisticsRisk),
      geopoliticalRiskScore |-> Num(geopoliticalRisk)]

BothFallbacksApply ==
  /\ event.op = "facts"
  /\ event' = [op |-> "fallbacks", data |-> event.data,
               emergency |-> createEmergencyFallback(event.data).scores,
               provider |-> createFallbackAnalysisScores(event.data)]
  /\ UNCHANGED <<assessments, order, clock, orch, micro, hist, nPatch, client>>

BothFallbacksNext == BothFallbacksApply

BothFallbacksSpec == FallbackInit /\ [][BothFallbacksNext]_vars

(***************************************************************************)
(* C30.  For every facts value createFallbackAnalysis and                  *)
(* createEmergencyFallback return the same four scores.                    *)
(***************************************************************************)
C30_FallbacksAgree ==
  event.op = "fallbacks" => event.provider = event.emergency

=============================================================================
